---- MODULE Spec2Model ----
(***************************************************************************)
(* Model of the lock-up list scraper (LockUpScraper2.0/scripts/scraper.py)*)
(* and of the data entry application (quick_lu_entry/main.py).             *)
(* A page is a sequence of one-character strings; offsets are 0-based as   *)
(* in the Python source (At(T, i) is text[i], Slice(T, a, b) is text[a:b]).*)
(***************************************************************************)
EXTENDS Integers, Sequences, FiniteSets, TLC

VARIABLES
  page,       \* the text handed to scrape_lulist
  pc,         \* position in scrape_lulist: start, created, validated, returned, raised
  lunum_raw,  \* the list create_lunums returned
  lunum,      \* the list validate_normalize_lunums returned
  lu_index,   \* position of the loop over lunum
  d,          \* the rows appended so far
  df,         \* the returned table
  raised,     \* the exception that left scrape_lulist, "" when none
  app,        \* the DataEntryApp object (self)
  run         \* DataEntryApp.run: the files, the loop position, the listener

vars == <<page, pc, lunum_raw, lunum, lu_index, d, df, raised, app, run>>

(***************************************************************************)
(* Text primitives.                                                        *)
(***************************************************************************)
NL == "\n"
SP == " "

Digits == <<"0", "1", "2", "3", "4", "5", "6", "7", "8", "9">>

IsDigit(c) == \E v \in 1..10 : Digits[v] = c

IsSpace(c) == c \in {SP, NL}

DigitVal(c) == (CHOOSE v \in 1..10 : Digits[v] = c) - 1

At(T, i) == T[i + 1]

Min2(a, b) == IF a < b THEN a ELSE b

\* text[a:b]
Slice(T, a, b) == SubSeq(T, a + 1, Min2(b, Len(T)))

\* CharIs(T, i, c): i is inside the text and text[i] = c
CharIs(T, i, c) == i >= 0 /\ i < Len(T) /\ At(T, i) = c

DigitAt(T, i) == i >= 0 /\ i < Len(T) /\ IsDigit(At(T, i))

RECURSIVE WsRun(_, _)
\* number of consecutive \s characters from offset p
WsRun(T, p) ==
  IF p < Len(T) /\ IsSpace(At(T, p)) THEN 1 + WsRun(T, p + 1) ELSE 0

RECURSIVE NlRun(_, _)
\* number of consecutive newlines from offset p
NlRun(T, p) ==
  IF p < Len(T) /\ At(T, p) = NL THEN 1 + NlRun(T, p + 1) ELSE 0

RECURSIVE IntOf(_)
\* int(s) for a string of decimal digits
IntOf(s) ==
  IF s = <<>> THEN 0
  ELSE 10 * IntOf(SubSeq(s, 1, Len(s) - 1)) + DigitVal(s[Len(s)])

RECURSIVE Str(_)
\* str(n) for n >= 0
Str(n) ==
  IF n < 10 THEN <<Digits[n + 1]>>
  ELSE Str(n \div 10) \o <<Digits[(n % 10) + 1]>>

RECURSIVE Zfill(_, _)
\* s.zfill(width)
Zfill(s, width) == IF Len(s) >= width THEN s ELSE Zfill(<<"0">> \o s, width)

\* text.startswith(sub, p)
StartsWithAt(T, sub, p) ==
  /\ p + Len(sub) <= Len(T)
  /\ \A k \in 1..Len(sub) : T[p + k] = sub[k]

\* text.find(sub): the first offset of sub, -1 when absent
Find(T, sub) ==
  IF \E p \in 0..Len(T) : StartsWithAt(T, sub, p)
  THEN CHOOSE p \in 0..Len(T) :
         /\ StartsWithAt(T, sub, p)
         /\ \A q \in 0..(p - 1) : ~StartsWithAt(T, sub, q)
  ELSE 0 - 1

\* text.replace(old, new, 1)
ReplaceFirst(T, old, new) ==
  LET p == Find(T, old) IN
  IF p < 0 THEN T
  ELSE Slice(T, 0, p) \o new \o Slice(T, p + Len(old), Len(T))

(***************************************************************************)
(* The anchor pattern  ^\s+(?P<number>\d{2,3})(?= )  with re.M.            *)
(***************************************************************************)
\* ^ under re.M: the start of the text or just after a newline
LineStart(T, p) == p = 0 \/ At(T, p - 1) = NL

\* \d{2,3}(?= ) at offset q: the greedy 3-digit try, then the 2-digit try;
\* the result is the number of digits taken, 0 when neither is followed by
\* a space.
NumberLen(T, q) ==
  IF DigitAt(T, q) /\ DigitAt(T, q + 1) /\ DigitAt(T, q + 2) /\ CharIs(T, q + 3, SP)
  THEN 3
  ELSE IF DigitAt(T, q) /\ DigitAt(T, q + 1) /\ CharIs(T, q + 2, SP)
  THEN 2
  ELSE 0

\* LuRegexMatchAt with the leading whitespace optional, as ^\s* would match
LuRegexMatchAtOptionalWs(T, p) ==
  LET w == WsRun(T, p)
      q == p + w
      k == NumberLen(T, q)
  IN IF p < Len(T) /\ LineStart(T, p) /\ k > 0
     THEN <<[start |-> p, number_start |-> q, number_end |-> q + k,
             number |-> Slice(T, q, q + k)]>>
     ELSE <<>>

\* one match attempt of the anchor pattern at offset p: <<>> when it fails,
\* <<m>> when it matches.  \s+ must take the whole whitespace run: giving a
\* character back leaves a whitespace character where \d is required.
LuRegexMatchAt(T, p) ==
  LET w == WsRun(T, p)
      q == p + w
      k == NumberLen(T, q)
  IN IF p < Len(T) /\ LineStart(T, p) /\ w >= 1 /\ k > 0
     THEN <<[start |-> p, number_start |-> q, number_end |-> q + k,
             number |-> Slice(T, q, q + k)]>>
     ELSE <<>>

RECURSIVE LuRegexFinditer(_, _)
\* list(re.finditer(lu_regex, lu_text, flags=re.M)): leftmost matches, the
\* scan resuming at the end of each match
LuRegexFinditer(T, pos) ==
  IF pos >= Len(T) THEN <<>>
  ELSE LET m == LuRegexMatchAt(T, pos) IN
       IF m # <<>> THEN <<m[1]>> \o LuRegexFinditer(T, m[1].number_end)
       ELSE LuRegexFinditer(T, pos + 1)

(***************************************************************************)
(* class LuNum                                                             *)
(***************************************************************************)
\* LuNum.__init__(match_item, block_text)
LuNum(match_item, block_text) ==
  [match |-> <<match_item>>, block_text |-> block_text, fixed_number |-> <<>>,
   is_duplicate |-> "None", is_missing |-> FALSE]

original_number(lu) == IntOf(lu.match[1].number)

number(lu) ==
  IF lu.fixed_number # <<>> THEN lu.fixed_number[1] ELSE original_number(lu)

is_fixed(lu) == lu.fixed_number # <<>>

is_duplicate(lu) == lu.is_duplicate = "True"

is_missing(lu) == lu.is_missing

block_start(lu) == lu.match[1].start

(***************************************************************************)
(* create_lunums                                                           *)
(***************************************************************************)
Nth(s, i) == s[i + 1]

\* BlockEnd with the next block taken to start at its number rather than at
\* its match (the leading whitespace of the next anchor stays in this block)
BlockEndAtNextNumber(lunums_list, i, lu_text) ==
  IF i < Len(lunums_list) - 1 THEN Nth(lunums_list, i + 1).number_start
  ELSE Len(lu_text)

\* the end of block i: the start of the next match, or the end of the text
\* for the last match
BlockEnd(lunums_list, i, lu_text) ==
  IF i < Len(lunums_list) - 1 THEN Nth(lunums_list, i + 1).start
  ELSE Len(lu_text)

\* NoLunumsFound written as "if lunums_list is None", which a list never is
NoLunumsFoundIsNone(lunums_list) == FALSE

\* "if not lunums_list": create_lunums raises ValueError
NoLunumsFound(lunums_list) == lunums_list = <<>>

\* create_lunums(lu_text): the exception it raises ("" when none) and the
\* list it returns
create_lunums(lu_text) ==
  LET lunums_list == LuRegexFinditer(lu_text, 0) IN
  IF NoLunumsFound(lunums_list) THEN [raised |-> "ValueError", lu_nums |-> <<>>]
  ELSE [raised |-> "",
        lu_nums |->
          [k \in 1..Len(lunums_list) |->
             LuNum(lunums_list[k],
                   Slice(lu_text, lunums_list[k].start,
                         BlockEnd(lunums_list, k - 1, lu_text)))]]

(***************************************************************************)
(* validate_normalize_lunums                                               *)
(***************************************************************************)
\* the value the walk expects at position i: start_num = numbers[0] at the
\* first position, then the previous value + 1
ExpectedNum(numbers, i) ==
  IF i = 0 THEN Nth(numbers, 0) ELSE Nth(numbers, i - 1) + 1

\* out_of_order with an event only for a value smaller than expected
OutOfOrderBackwardOnly(numbers) ==
  {<<i, ExpectedNum(numbers, i), Nth(numbers, i)>> :
     i \in {j \in 0..(Len(numbers) - 1) : Nth(numbers, j) < ExpectedNum(numbers, j)}}

\* the out_of_order list: one event (i, expected_num, num) per mismatch
out_of_order(numbers) ==
  {<<i, ExpectedNum(numbers, i), Nth(numbers, i)>> :
     i \in {j \in 0..(Len(numbers) - 1) : Nth(numbers, j) # ExpectedNum(numbers, j)}}

\* PrevNum read from the blocks already corrected in this pass
PrevNumCorrected(numbers, fixed_lunums, i) == number(Nth(fixed_lunums, i - 1))

\* prev_num of the correction pass: read from the numbers extracted before
\* the pass, not from fixed_lunums
PrevNum(numbers, fixed_lunums, i) == Nth(numbers, i - 1)

\* CorrectNum with start_num left at the default argument 1 instead of being
\* overwritten by numbers[0]
CorrectNumStartOne(numbers, fixed_lunums, i) ==
  LET n == Len(numbers)
      start_num == 1
      original_num == Nth(numbers, i)
  IN IF i > 0 /\ i < n - 1
     THEN LET prev_num == PrevNum(numbers, fixed_lunums, i)
              next_num == Nth(numbers, i + 1)
          IN IF next_num = prev_num + 2 /\ original_num # prev_num + 1
             THEN <<prev_num + 1>> ELSE <<>>
     ELSE IF i = 0 /\ n > 1
     THEN LET next_num == Nth(numbers, i + 1)
          IN IF (original_num # start_num \/ next_num # original_num + 1)
                /\ next_num = start_num + 1
             THEN <<start_num>> ELSE <<>>
     ELSE IF i = n - 1 /\ n > 1
     THEN LET prev_num == PrevNum(numbers, fixed_lunums, i)
          IN IF original_num # prev_num + 1 THEN <<prev_num + 1>> ELSE <<>>
     ELSE <<>>

\* needs_fixing / correct_num for position i: <<>> when the block is kept,
\* <<correct_num>> when it is fixed
CorrectNum(numbers, fixed_lunums, i) ==
  LET n == Len(numbers)
      start_num == Nth(numbers, 0)
      original_num == Nth(numbers, i)
  IN IF i > 0 /\ i < n - 1
     THEN LET prev_num == PrevNum(numbers, fixed_lunums, i)
              next_num == Nth(numbers, i + 1)
          IN IF next_num = prev_num + 2 /\ original_num # prev_num + 1
             THEN <<prev_num + 1>> ELSE <<>>
     ELSE IF i = 0 /\ n > 1
     THEN LET next_num == Nth(numbers, i + 1)
          IN IF (original_num # start_num \/ next_num # original_num + 1)
                /\ next_num = start_num + 1
             THEN <<start_num>> ELSE <<>>
     ELSE IF i = n - 1 /\ n > 1
     THEN LET prev_num == PrevNum(numbers, fixed_lunums, i)
          IN IF original_num # prev_num + 1 THEN <<prev_num + 1>> ELSE <<>>
     ELSE <<>>

\* the block text of a fixed block: the first "<old> " replaced by "<new> ",
\* new zero-padded to the width of str(old)
FixedBlock(block, original_num, correct_num) ==
  LET old_num_str == Str(original_num)
      new_num_str == Zfill(Str(correct_num), Len(old_num_str))
  IN ReplaceFirst(block, old_num_str \o <<SP>>, new_num_str \o <<SP>>)

\* the LuNum built for a fixed block
FixedLuNum(lu, original_num, correct_num) ==
  [match |-> lu.match,
   block_text |-> FixedBlock(lu.block_text, original_num, correct_num),
   fixed_number |-> <<correct_num>>, is_duplicate |-> "False",
   is_missing |-> FALSE]

RECURSIVE CorrectionPass(_, _, _, _)
\* the loop over enumerate(lunums) that builds fixed_lunums
CorrectionPass(lunums, numbers, i, fixed_lunums) ==
  IF i >= Len(lunums) THEN fixed_lunums
  ELSE LET lu == Nth(lunums, i)
           c == CorrectNum(numbers, fixed_lunums, i)
           out == IF c # <<>> THEN FixedLuNum(lu, Nth(numbers, i), c[1])
                  ELSE [lu EXCEPT !.is_duplicate = "False"]
       IN CorrectionPass(lunums, numbers, i + 1, Append(fixed_lunums, out))

\* step "fix the sequence first": the correction pass when the walk found an
\* event, else the input list with every duplicate flag set to False
FixSequence(lunums) ==
  LET numbers == [k \in 1..Len(lunums) |-> number(lunums[k])] IN
  IF out_of_order(numbers) # {}
  THEN CorrectionPass(lunums, numbers, 0, <<>>)
  ELSE [k \in 1..Len(lunums) |-> [lunums[k] EXCEPT !.is_duplicate = "False"]]

RECURSIVE FlagDuplicatesAddFirst(_, _, _)
\* FlagDuplicates with seen_numbers.add(num) moved before the membership test
FlagDuplicatesAddFirst(fixed_lunums, i, seen_numbers) ==
  IF i >= Len(fixed_lunums) THEN fixed_lunums
  ELSE LET num == number(Nth(fixed_lunums, i))
           seen == seen_numbers \cup {num}
           flagged == IF num \in seen
                      THEN [fixed_lunums EXCEPT ![i + 1].is_duplicate = "True"]
                      ELSE fixed_lunums
       IN FlagDuplicatesAddFirst(flagged, i + 1, seen)

RECURSIVE FlagDuplicatesAdjacent(_, _, _)
\* FlagDuplicates with seen_numbers reset to the previous number only
FlagDuplicatesAdjacent(fixed_lunums, i, seen_numbers) ==
  IF i >= Len(fixed_lunums) THEN fixed_lunums
  ELSE LET num == number(Nth(fixed_lunums, i))
           flagged == IF num \in seen_numbers
                      THEN [fixed_lunums EXCEPT ![i + 1].is_duplicate = "True"]
                      ELSE fixed_lunums
       IN FlagDuplicatesAdjacent(flagged, i + 1, {num})

RECURSIVE FlagDuplicates(_, _, _)
\* the seen_numbers scan over the corrected numbers
FlagDuplicates(fixed_lunums, i, seen_numbers) ==
  IF i >= Len(fixed_lunums) THEN fixed_lunums
  ELSE LET num == number(Nth(fixed_lunums, i))
           flagged == IF num \in seen_numbers
                      THEN [fixed_lunums EXCEPT ![i + 1].is_duplicate = "True"]
                      ELSE fixed_lunums
       IN FlagDuplicates(flagged, i + 1, seen_numbers \cup {num})

\* the placeholder LuNum of a missing number
Placeholder(missing_num) ==
  [match |-> <<>>, block_text |-> <<>>, fixed_number |-> <<missing_num>>,
   is_duplicate |-> "False", is_missing |-> TRUE]

\* InsertPos that always inserts at the front
InsertPosFront(fixed_lunums, missing_num, i) == 0

RECURSIVE InsertPos(_, _, _)
\* insert_pos: the loop stops at the first element that is not smaller
InsertPos(fixed_lunums, missing_num, i) ==
  IF i < Len(fixed_lunums) /\ number(Nth(fixed_lunums, i)) < missing_num
  THEN InsertPos(fixed_lunums, missing_num, i + 1)
  ELSE i

\* ListInsert as the assignment s[pos] = x would leave the list: the element
\* at pos replaced (x appended when pos is the end)
ListInsertOverwrite(s, pos, x) ==
  SubSeq(s, 1, pos) \o <<x>> \o SubSeq(s, pos + 2, Len(s))

\* list.insert(pos, x)
ListInsert(s, pos, x) == SubSeq(s, 1, pos) \o <<x>> \o SubSeq(s, pos + 1, Len(s))

SeqMin(s) == CHOOSE x \in {s[k] : k \in 1..Len(s)} : \A k \in 1..Len(s) : x <= s[k]

SeqMax(s) == CHOOSE x \in {s[k] : k \in 1..Len(s)} : \A k \in 1..Len(s) : x >= s[k]

\* MissingNumbers with the operands of the difference swapped
MissingNumbersSwapped(corrected_numbers) ==
  LET expected_set == SeqMin(corrected_numbers)..SeqMax(corrected_numbers)
      found_set == {corrected_numbers[k] : k \in 1..Len(corrected_numbers)}
  IN found_set \ expected_set

\* MissingNumbers with the expected range starting at the default start_num
\* of 1 instead of min(corrected_numbers)
MissingNumbersFromOne(corrected_numbers) ==
  LET expected_set == 1..SeqMax(corrected_numbers)
      found_set == {corrected_numbers[k] : k \in 1..Len(corrected_numbers)}
  IN expected_set \ found_set

\* missing_numbers, as a set: expected_set - found_set
MissingNumbers(corrected_numbers) ==
  LET expected_set == SeqMin(corrected_numbers)..SeqMax(corrected_numbers)
      found_set == {corrected_numbers[k] : k \in 1..Len(corrected_numbers)}
  IN expected_set \ found_set

RECURSIVE InsertMissing(_, _)
\* the loop over sorted(missing_numbers): the smallest first
InsertMissing(fixed_lunums, missing_numbers) ==
  IF missing_numbers = {} THEN fixed_lunums
  ELSE LET m == CHOOSE x \in missing_numbers : \A y \in missing_numbers : x <= y
       IN InsertMissing(
            ListInsert(fixed_lunums, InsertPos(fixed_lunums, m, 0), Placeholder(m)),
            missing_numbers \ {m})

\* validate_normalize_lunums(lunums), lunums not empty
validate_normalize_lunums(lunums) ==
  LET fixed_lunums == FixSequence(lunums)
      corrected_numbers == [k \in 1..Len(fixed_lunums) |-> number(fixed_lunums[k])]
      flagged == FlagDuplicates(fixed_lunums, 0, {})
  IN InsertMissing(flagged, MissingNumbers(corrected_numbers))

(***************************************************************************)
(* select_line, handle_nulls and the searches of LockUpBlock               *)
(***************************************************************************)
nan == <<"nan">>

\* text.count("\n")
NewlineCount(text) == Cardinality({k \in 1..Len(text) : text[k] = NL})

RECURSIVE LineStartIndex(_, _, _)
\* the end of the match of (".*\n" * (line_number - 1)) searched from the
\* start of the text: the offset just after that many newlines from p
LineStartIndex(text, p, newlines) ==
  IF newlines = 0 THEN p
  ELSE IF At(text, p) = NL THEN LineStartIndex(text, p + 1, newlines - 1)
  ELSE LineStartIndex(text, p + 1, newlines)

RECURSIVE LineEndIndex(_, _)
\* the end of ".*$" under re.M from offset p: the next newline or the end
LineEndIndex(text, p) ==
  IF p >= Len(text) \/ At(text, p) = NL THEN p ELSE LineEndIndex(text, p + 1)

\* select_line raises AttributeError (None has no .end()) when regex_start
\* has no match: the text has fewer than line_number - 1 newlines
SelectLineRaises(text, line_number) == NewlineCount(text) < line_number - 1

\* select_line(text, line_number), when it does not raise
select_line(text, line_number) ==
  LET start_index == LineStartIndex(text, 0, line_number - 1)
  IN Slice(text, start_index, LineEndIndex(text, start_index))

RECURSIVE Strip(_)
\* str.strip()
Strip(s) ==
  IF s # <<>> /\ IsSpace(s[1]) THEN Strip(Tail(s))
  ELSE IF s # <<>> /\ IsSpace(s[Len(s)]) THEN Strip(SubSeq(s, 1, Len(s) - 1))
  ELSE s

\* handle_nulls(scrape_var, strip)
handle_nulls(scrape_var, strip) ==
  IF scrape_var # <<>>
  THEN (IF strip THEN Strip(scrape_var[1]) ELSE scrape_var[1])
  ELSE nan

\* the patterns of the modelled fields
AgeRe == "\\d\\d(?= year old)"
GenderRe == "Male|Female(?= )"
DateRe == "\\d{2}\\/\\d{2}\\/\\d{4}"
DateTimeRe == "\\d{2}\\/\\d{2}\\/\\d{4} \\d{4}"
ProsecutorRe == "(?<=^)[(USAO)(OAG)(Traffic) &]+(?=     )"
ProsecutorReM == "(?m)(?<=^)[(USAO)(OAG)(Traffic) &]+(?=     )"
CodefRe == "(?<=CODEF )/d{2}|(?<=CODEF)/d{2}"

\* "\d{2}\/\d{2}\/\d{4}" at offset p
DateAt(text, p) ==
  /\ DigitAt(text, p) /\ DigitAt(text, p + 1) /\ CharIs(text, p + 2, "/")
  /\ DigitAt(text, p + 3) /\ DigitAt(text, p + 4) /\ CharIs(text, p + 5, "/")
  /\ \A k \in 6..9 : DigitAt(text, p + k)

\* the character class [(USAO)(OAG)(Traffic) &]
ProsecutorClass ==
  {"(", ")", "U", "S", "A", "O", "G", "T", "r", "a", "f", "i", "c", SP, "&"}

RECURSIVE ClassRun(_, _)
\* number of consecutive characters of the class from offset p
ClassRun(text, p) ==
  IF p < Len(text) /\ At(text, p) \in ProsecutorClass
  THEN 1 + ClassRun(text, p + 1) ELSE 0

\* [(USAO)(OAG)(Traffic) &]+(?=     ) at offset p: the longest run of class
\* characters that leaves five spaces after it, -1 when there is none
ProsecutorLen(text, p) ==
  LET fits == {k \in 1..ClassRun(text, p) :
                 StartsWithAt(text, <<SP, SP, SP, SP, SP>>, p + k)}
  IN IF fits = {} THEN 0 - 1 ELSE CHOOSE k \in fits : \A j \in fits : j <= k

\* the length of the match of a pattern attempted at offset p, -1 when the
\* pattern does not match there.  Male|Female(?= ) is the alternation of
\* Male  and  Female(?= ).
MatchLen(pattern, text, p) ==
  CASE pattern = AgeRe ->
         IF DigitAt(text, p) /\ DigitAt(text, p + 1)
            /\ StartsWithAt(text, <<" ", "y", "e", "a", "r", " ", "o", "l", "d">>, p + 2)
         THEN 2 ELSE 0 - 1
    [] pattern = GenderRe ->
         IF StartsWithAt(text, <<"M", "a", "l", "e">>, p) THEN 4
         ELSE IF StartsWithAt(text, <<"F", "e", "m", "a", "l", "e">>, p)
                 /\ CharIs(text, p + 6, SP)
         THEN 6 ELSE 0 - 1
    [] pattern = DateRe ->
         IF DateAt(text, p) THEN 10 ELSE 0 - 1
    [] pattern = DateTimeRe ->
         IF DateAt(text, p) /\ CharIs(text, p + 10, SP)
            /\ \A k \in 11..14 : DigitAt(text, p + k)
         THEN 15 ELSE 0 - 1
    [] pattern = ProsecutorRe ->
         IF p = 0 THEN ProsecutorLen(text, p) ELSE 0 - 1
    [] pattern = ProsecutorReM ->
         IF LineStart(text, p) THEN ProsecutorLen(text, p) ELSE 0 - 1
    [] pattern = CodefRe ->
         IF StartsWithAt(text, <<"/", "d", "d">>, p)
            /\ \/ p >= 6 /\ StartsWithAt(text, <<"C", "O", "D", "E", "F", SP>>, p - 6)
               \/ p >= 5 /\ StartsWithAt(text, <<"C", "O", "D", "E", "F">>, p - 5)
         THEN 3 ELSE 0 - 1

RECURSIVE SearchFrom(_, _, _)
\* the leftmost match at or after offset p: <<>> for None, else <<its text>>
SearchFrom(pattern, text, p) ==
  IF p > Len(text) THEN <<>>
  ELSE LET k == MatchLen(pattern, text, p) IN
       IF k >= 0 THEN <<Slice(text, p, p + k)>>
       ELSE SearchFrom(pattern, text, p + 1)

\* re.search(pattern, text)
Search(pattern, text) == SearchFrom(pattern, text, 0)

(***************************************************************************)
(* class LockUpBlock.  Of the field set the model carries age and gender   *)
(* (get_lo_details), court_date, prosecutor and codef (get_case_details)   *)
(* and arrest_date (get_arrest_details); the other fields are searched     *)
(* with re.search on the same select_line results and add no way to raise. *)
(***************************************************************************)
\* get_lo_details: the fields it sets
get_lo_details(block) ==
  LET age1 == Search(AgeRe, select_line(block, 1))
      gender2 == Search(GenderRe, select_line(block, 2))
  IN [age |-> IF age1 # <<>> THEN Strip(age1[1])
              ELSE handle_nulls(Search(AgeRe, block), FALSE),
      gender |-> IF gender2 # <<>> THEN Strip(gender2[1])
                 ELSE handle_nulls(Search(GenderRe, block), FALSE)]

\* get_lo_details selects lines 1 and 2
GetLoDetailsRaises(block) ==
  SelectLineRaises(block, 1) \/ SelectLineRaises(block, 2)

\* get_case_details: court_date is searched on line 3 only; prosecutor on
\* line 3 with re.M, then in the block without the flag; codef in the block
get_case_details(block) ==
  LET prosecutor3 == Search(ProsecutorReM, select_line(block, 3))
  IN [court_date |-> handle_nulls(Search(DateRe, select_line(block, 3)), FALSE),
      prosecutor |-> IF prosecutor3 # <<>> THEN Strip(prosecutor3[1])
                     ELSE handle_nulls(Search(ProsecutorRe, block), FALSE),
      codef |-> handle_nulls(Search(CodefRe, block), FALSE)]

\* get_case_details selects lines 3, 1 and 2
GetCaseDetailsRaises(block) ==
  SelectLineRaises(block, 3) \/ SelectLineRaises(block, 1) \/ SelectLineRaises(block, 2)

\* get_arrest_details: arrest_date is searched on line 1 only
get_arrest_details(block) ==
  [arrest_date |-> handle_nulls(Search(DateTimeRe, select_line(block, 1)), FALSE)]

\* get_arrest_details selects lines 2, 3 and 1
GetArrestDetailsRaises(block) ==
  SelectLineRaises(block, 2) \/ SelectLineRaises(block, 3) \/ SelectLineRaises(block, 1)

\* LockUpBlock(lu_number, block) with errored_lu = False: the three getters
\* run in the order of __init__ and the first AttributeError leaves the
\* constructor; otherwise the object carries every field
LockUpBlock(lu_number, block) ==
  IF GetLoDetailsRaises(block) \/ GetCaseDetailsRaises(block)
     \/ GetArrestDetailsRaises(block)
  THEN [raised |-> "AttributeError"]
  ELSE [raised |-> "", lu_number |-> lu_number] @@ get_lo_details(block)
       @@ get_case_details(block) @@ get_arrest_details(block)

(***************************************************************************)
(* scrape_lulist                                                           *)
(***************************************************************************)
MaxLeadingWs == 25

RECURSIVE StripNewlines(_, _)
\* re.sub(r"\n+(?=\s{,25}(\d{2,3}) )", '', block) scanned from offset p: a
\* run of newlines is dropped when at most 25 further whitespace characters
\* separate it from a 2-3 digit number and a space
StripNewlines(block, p) ==
  IF p >= Len(block) THEN <<>>
  ELSE LET k == NlRun(block, p)
           q == p + WsRun(block, p)
       IN IF k >= 1 /\ q - (p + k) <= MaxLeadingWs /\ NumberLen(block, q) > 0
          THEN StripNewlines(block, p + k)
          ELSE <<At(block, p)>> \o StripNewlines(block, p + 1)

\* BlockRow with the court date of the row before carried into a row that
\* has none of its own
BlockRowCourtDateCarried(num, CurrentLUNum) ==
  [court_date |-> IF CurrentLUNum.court_date = nan /\ d # <<>>
                  THEN d[Len(d)].court_date ELSE CurrentLUNum.court_date,
   lockup_number |-> num,
   prosecutor |-> CurrentLUNum.prosecutor,
   gender |-> CurrentLUNum.gender, age |-> CurrentLUNum.age,
   arrest_date |-> CurrentLUNum.arrest_date, codef |-> CurrentLUNum.codef,
   scraper_warnings |-> nan]

\* the row appended for a block that is not a placeholder
BlockRow(num, CurrentLUNum) ==
  [court_date |-> CurrentLUNum.court_date, lockup_number |-> num,
   prosecutor |-> CurrentLUNum.prosecutor,
   gender |-> CurrentLUNum.gender, age |-> CurrentLUNum.age,
   arrest_date |-> CurrentLUNum.arrest_date, codef |-> CurrentLUNum.codef,
   scraper_warnings |-> nan]

\* CourtDateFallback without the look at the previous row
CourtDateFallbackNan(rows) == nan

\* court_date_fallback: d[-1].get('court_date'), nan on IndexError
CourtDateFallback(rows) ==
  IF rows = <<>> THEN nan ELSE rows[Len(rows)].court_date

\* MissingRow with the warning left at the nan the loop starts from
MissingRowNoWarning(num, rows) ==
  [court_date |-> CourtDateFallback(rows), lockup_number |-> num,
   scraper_warnings |-> nan]

\* the row appended for a placeholder
MissingRow(num, rows) ==
  [court_date |-> CourtDateFallback(rows), lockup_number |-> num,
   scraper_warnings |-> <<"PDF Reader Error; Could not find LU block text for", num>>]

Columns ==
  {"court_date", "lockup_number", "prosecutor", "gender", "age", "arrest_date",
   "codef", "scraper_warnings"}

\* pd.DataFrame(d): every row gets every column, nan where the dict of the
\* row has no such key
DataFrame(rows) ==
  [k \in 1..Len(rows) |->
     [c \in Columns |-> IF c \in DOMAIN rows[k] THEN rows[k][c] ELSE nan]]

\* lines 512-513: create_lunums; no match raises ValueError
CreateLunums ==
  /\ pc = "start"
  /\ \E created \in {create_lunums(page)} :
     IF created.raised # ""
     THEN /\ raised' = created.raised
          /\ pc' = "raised"
          /\ UNCHANGED lunum_raw
     ELSE /\ lunum_raw' = created.lu_nums
          /\ pc' = "created"
          /\ UNCHANGED raised
  /\ UNCHANGED <<page, lunum, lu_index, d, df, app, run>>

\* line 514: validate_normalize_lunums
ValidateNormalize ==
  /\ pc = "created"
  /\ lunum' = validate_normalize_lunums(lunum_raw)
  /\ pc' = "validated"
  /\ UNCHANGED <<page, lunum_raw, lu_index, d, df, raised, app, run>>

\* one iteration of "for lu in lunum".  lu.block is a plain attribute read,
\* so the except KeyError branch is never entered.
ScrapeBlock ==
  /\ pc = "validated"
  /\ lu_index < Len(lunum)
  /\ LET lu == Nth(lunum, lu_index)
         num == number(lu)
     IN IF ~is_missing(lu)
        THEN \E block \in {StripNewlines(lu.block_text, 0)} :
             \E CurrentLUNum \in {LockUpBlock(num, block)} :
                IF CurrentLUNum.raised # ""
                THEN /\ raised' = CurrentLUNum.raised
                     /\ pc' = "raised"
                     /\ UNCHANGED <<d, lu_index>>
                ELSE /\ d' = Append(d, BlockRow(num, CurrentLUNum))
                     /\ lu_index' = lu_index + 1
                     /\ UNCHANGED <<pc, raised>>
        ELSE /\ d' = Append(d, MissingRow(num, d))
             /\ lu_index' = lu_index + 1
             /\ UNCHANGED <<pc, raised>>
  /\ UNCHANGED <<page, lunum_raw, lunum, df, app, run>>

\* lines 650-654: the loop is over, the table is built and returned
ReturnDataFrame ==
  /\ pc = "validated"
  /\ lu_index = Len(lunum)
  /\ df' = DataFrame(d)
  /\ pc' = "returned"
  /\ UNCHANGED <<page, lunum_raw, lunum, lu_index, d, raised, app, run>>

Next == CreateLunums \/ ValidateNormalize \/ ScrapeBlock \/ ReturnDataFrame

(***************************************************************************)
(* The data entry application (quick_lu_entry/main.py).  The object is a   *)
(* record; a method is an operator from the object to the object it        *)
(* leaves.  An age is a sequence of one-character strings.  A key is a     *)
(* string: one character for a character key, the name for a special key.  *)
(***************************************************************************)
SpecialKeys == {"Key.backspace", "Key.up", "Key.down", "Key.enter"}

\* hasattr(key, 'char') and key.char
has_char(key) == key \notin SpecialKeys

\* str.lower() on the letters of the hot keys
lower(c) ==
  CASE c = "B" -> "b" [] c = "H" -> "h" [] c = "W" -> "w" [] c = "N" -> "n"
    [] c = "G" -> "g" [] c = "X" -> "x" [] c = "Q" -> "q" [] OTHER -> c

\* the default settings
hotkeys ==
  [race_black |-> "b", race_hispanic |-> "h", race_white |-> "w",
   race_none |-> "n", gender_toggle |-> "g", gender_none |-> "x",
   save_and_next |-> "enter", quit |-> "q"]

\* the dict a new lock-up number starts from
BlankEntry(n) ==
  [lockup_number |-> n, race |-> "Black or African-American", age |-> <<>>,
   gender |-> "Male"]

\* DataEntryApp.__init__
DataEntryApp ==
  [data |-> <<>>, court_date |-> "", current_pdf_name |-> "",
   start_lockup |-> 1, end_lockup |-> 1, current_lockup |-> 1,
   current_entry |-> BlankEntry(1),
   pdf_complete |-> FALSE, should_quit |-> FALSE, pending_save |-> FALSE]

\* setup_pdf with the answers typed at its prompts; the two loops leave
\* only with start > 0 and end >= start
setup_pdf(self, pdf_name, court_date, start, end) ==
  [self EXCEPT !.current_pdf_name = pdf_name,
               !.court_date = court_date,
               !.start_lockup = start,
               !.end_lockup = end,
               !.current_lockup = start,
               !.current_entry = BlankEntry(start),
               !.pdf_complete = FALSE]

\* the test the three loops over self.data share
IsCurrent(self, e) ==
  /\ e.lockup_number = self.current_lockup
  /\ e.court_date = self.court_date
  /\ e.file_name = self.current_pdf_name

\* the positions of self.data that hold the current lock-up number
CurrentIndexes(self) ==
  {i \in 1..Len(self.data) : IsCurrent(self, self.data[i])}

FirstOf(S) == CHOOSE i \in S : \A j \in S : i <= j

\* is_entered of display_current_entry
is_entered(self) == CurrentIndexes(self) # {}

load_entry_if_exists(self) ==
  IF CurrentIndexes(self) = {}
  THEN self
  ELSE LET entry == self.data[FirstOf(CurrentIndexes(self))]
       IN [self EXCEPT !.current_entry.race = entry.race,
                       !.current_entry.age = entry.age,
                       !.current_entry.gender = entry.gender]

\* the move the three navigation paths share: a blank entry for lock-up
\* number n, then load_entry_if_exists
MoveTo(self, n) ==
  load_entry_if_exists([self EXCEPT !.current_lockup = n,
                                    !.current_entry = BlankEntry(n)])

\* line 268: the age is missing and Enter was not pressed for it yet
NeedsConfirmationNever(self) == FALSE
NeedsConfirmation(self) ==
  self.current_entry.age = <<>> /\ ~self.pending_save

\* lines 276-285; entry_date is the day of the run
SavedEntry(self) ==
  [file_name |-> self.current_pdf_name, court_date |-> self.court_date,
   lockup_number |-> self.current_lockup, race |-> self.current_entry.race,
   age |-> self.current_entry.age, gender |-> self.current_entry.gender,
   entry_method |-> "entry_app", entry_date |-> "today"]

\* lines 287-299: update the entry of the lock-up number or append one
StoreEntry(self) ==
  IF CurrentIndexes(self) # {}
  THEN [self.data EXCEPT ![FirstOf(CurrentIndexes(self))] = SavedEntry(self)]
  ELSE Append(self.data, SavedEntry(self))

save_current_entry(self) ==
  IF NeedsConfirmation(self)
  THEN [self EXCEPT !.pending_save = TRUE]
  ELSE LET saved == [self EXCEPT !.pending_save = FALSE,
                                 !.data = StoreEntry(self)]
       IN IF saved.current_lockup < saved.end_lockup
          THEN MoveTo(saved, saved.current_lockup + 1)
          ELSE [saved EXCEPT !.pdf_complete = TRUE]

go_to_previous(self) ==
  IF self.current_lockup > self.start_lockup
  THEN MoveTo([self EXCEPT !.pending_save = FALSE], self.current_lockup - 1)
  ELSE self

\* the numbers saved for the current file and court date
EnteredNumbers(self) ==
  {self.data[i].lockup_number :
     i \in {j \in 1..Len(self.data) :
              /\ self.data[j].court_date = self.court_date
              /\ self.data[j].file_name = self.current_pdf_name}}

\* lines 337-340
max_entered(self) ==
  LET S == EnteredNumbers(self) \cup {self.start_lockup - 1}
  IN CHOOSE m \in S : \A n \in S : n <= m

\* line 343: min(max_entered + 1, self.end_lockup)
NextLimitEndOnly(self) == self.end_lockup
NextLimit(self) ==
  IF max_entered(self) + 1 < self.end_lockup
  THEN max_entered(self) + 1
  ELSE self.end_lockup

go_to_next(self) ==
  LET reset == [self EXCEPT !.pending_save = FALSE]
  IN IF reset.current_lockup < NextLimit(reset)
     THEN MoveTo(reset, reset.current_lockup + 1)
     ELSE reset

MaxAgeLen == 3

\* lines 420-424
AgeDigit(self, char) ==
  IF Len(self.current_entry.age) < MaxAgeLen
  THEN [self EXCEPT !.current_entry.age = Append(@, char),
                    !.pending_save = FALSE]
  ELSE self

\* lines 407-414
GenderToggle(self) ==
  [self EXCEPT !.current_entry.gender =
     IF @ = "Male" THEN "Female" ELSE "Male"]

\* lines 433-436
Backspace(self) ==
  IF self.current_entry.age # <<>>
  THEN [self EXCEPT !.current_entry.age = SubSeq(@, 1, Len(@) - 1)]
  ELSE self

\* on_press: the object it leaves, and stop when it returns False (the
\* listener of this file ends)
on_press(self, key) ==
  IF has_char(key)
  THEN LET char == lower(key)
       IN CASE char = hotkeys.race_black ->
                 [self |-> [self EXCEPT !.current_entry.race = "Black or African-American"],
                  stop |-> FALSE]
            [] char = hotkeys.race_hispanic ->
                 [self |-> [self EXCEPT !.current_entry.race = "Hispanic or Latino"],
                  stop |-> FALSE]
            [] char = hotkeys.race_white ->
                 [self |-> [self EXCEPT !.current_entry.race = "White"],
                  stop |-> FALSE]
            [] char = hotkeys.race_none ->
                 [self |-> [self EXCEPT !.current_entry.race = "None"],
                  stop |-> FALSE]
            [] char = hotkeys.gender_toggle ->
                 [self |-> GenderToggle(self), stop |-> FALSE]
            [] char = hotkeys.gender_none ->
                 [self |-> [self EXCEPT !.current_entry.gender = "None"],
                  stop |-> FALSE]
            [] IsDigit(char) ->
                 [self |-> AgeDigit(self, char), stop |-> FALSE]
            [] char = hotkeys.quit ->
                 [self |-> [self EXCEPT !.should_quit = TRUE], stop |-> TRUE]
            [] OTHER -> [self |-> self, stop |-> FALSE]
  ELSE CASE key = "Key.backspace" -> [self |-> Backspace(self), stop |-> FALSE]
         [] key = "Key.up" -> [self |-> go_to_previous(self), stop |-> FALSE]
         [] key = "Key.down" -> [self |-> go_to_next(self), stop |-> FALSE]
         [] key = "Key.enter" ->
              LET after == save_current_entry(self)
              IN [self |-> after, stop |-> after.pdf_complete]
         [] OTHER -> [self |-> self, stop |-> FALSE]

\* save_to_csv: the rows written, none when there is no data
save_to_csv(self) == self.data

\* no application is running
NotRunning ==
  [pdf_files |-> <<>>, i |-> 0, at |-> "finished", keyboard |-> {},
   court_dates |-> {}, csv |-> <<>>]

\* the largest lock-up number typed at the prompts of setup_pdf
MaxLockup == 2

\* run, lines 456-459: the next file of the folder is set up and its
\* listener starts
SetupPdf ==
  /\ run.at = "setup"
  /\ \E court_date \in run.court_dates :
     \E start \in 1..MaxLockup :
     \E end \in start..MaxLockup :
       app' = setup_pdf(app, run.pdf_files[run.i + 1], court_date, start, end)
  /\ run' = [run EXCEPT !.i = @ + 1, !.at = "listening"]
  /\ UNCHANGED <<page, pc, lunum_raw, lunum, lu_index, d, df, raised>>

\* run, lines 464-481: the listener hands a key to on_press; when on_press
\* returns False the loop goes on to the next file, or writes the CSV file
\* and ends after Quit or after the last file
KeyPress ==
  /\ run.at = "listening"
  /\ \E key \in run.keyboard :
     \E r \in {on_press(app, key)} :
       /\ app' = r.self
       /\ run' = IF ~r.stop
                 THEN run
                 ELSE IF r.self.should_quit \/ run.i = Len(run.pdf_files)
                      THEN [run EXCEPT !.at = "finished",
                                       !.csv = save_to_csv(r.self)]
                      ELSE [run EXCEPT !.at = "setup"]
  /\ UNCHANGED <<page, pc, lunum_raw, lunum, lu_index, d, df, raised>>

NextApp == SetupPdf \/ KeyPress

(***************************************************************************)
(* Pages.                                                                  *)
(***************************************************************************)
\* the state at the call of scrape_lulist(page)
Start(pages) ==
  /\ page \in pages
  /\ pc = "start"
  /\ lunum_raw = <<>>
  /\ lunum = <<>>
  /\ lu_index = 0
  /\ d = <<>>
  /\ df = <<>>
  /\ raised = ""
  /\ app = DataEntryApp
  /\ run = NotRunning

RECURSIVE Concat(_)
Concat(ss) == IF ss = <<>> THEN <<>> ELSE ss[1] \o Concat(Tail(ss))

SeqsUpTo(S, n) == UNION {[1..k -> S] : k \in 0..n}

\* pages of a roster: up to MaxRecBlocks records, each " NN " followed by one
\* of the bodies below, NN in 01..MaxRecNum.  The empty body leaves the next
\* record on the same line (its number is then no anchor) or, for the last
\* record, ends the text on the anchor's line.
MaxRecBlocks == 3
MaxRecNum == 3

Bodies ==
  { <<>>,
    <<"x", NL, "y", NL, "z", NL>>,
    <<"x", NL, "y", NL, "1", "1", "/", "2", "2", "/", "3", "3", "3", "3", NL>> }

RecBlock(b) == <<SP>> \o Zfill(Str(b[1]), 2) \o <<SP>> \o b[2]

RecPages ==
  {Concat([k \in 1..Len(bs) |-> RecBlock(bs[k])]) :
     bs \in SeqsUpTo((1..MaxRecNum) \X Bodies, MaxRecBlocks)}

Init == Start(RecPages)

Spec == Init /\ [][Next]_vars

\* arbitrary short texts over a space, a newline and a digit
MaxPageLen == 9

SegAlphabet == {SP, NL, "1"}

SegPages == SeqsUpTo(SegAlphabet, MaxPageLen)

InitSeg == Start(SegPages)

SpecSeg == InitSeg /\ [][Next]_vars

\* rosters of up to MaxBlocks one-line records numbered in 01..MaxNum, for
\* the claims about validate_normalize_lunums alone
MaxBlocks == 5
MaxNum == 6

ValBlock(n) == <<SP>> \o Zfill(Str(n), 2) \o <<SP, NL>>

ValPages ==
  {Concat([k \in 1..Len(ns) |-> ValBlock(ns[k])]) :
     ns \in SeqsUpTo(1..MaxNum, MaxBlocks)}

InitVal == Start(ValPages)

NextVal == CreateLunums \/ ValidateNormalize

SpecVal == InitVal /\ [][NextVal]_vars

RECURSIVE Join(_, _)
\* sep.join(ss)
Join(ss, sep) ==
  IF ss = <<>> THEN <<>>
  ELSE IF Len(ss) = 1 THEN ss[1]
  ELSE ss[1] \o sep \o Join(Tail(ss), sep)

\* one record " 01 " of up to MaxFldLines lines, for the claims about the
\* fields: every line is one of the column values below, the first one
\* follows the number on its line, and the text ends with the last line
MaxFldLines == 3

FldLines ==
  { <<"x">>,
    <<"M", "a", "l", "e", SP>>,
    <<"F", "e", "m", "a", "l", "e", SP>>,
    <<"F", "e", "m", "a", "l", "e">>,
    <<"2", "5", SP, "y", "e", "a", "r", SP, "o", "l", "d">>,
    <<"1", "1", "/", "2", "2", "/", "3", "3", "3", "3", SP, "4", "4", "4", "4">>,
    <<"U", "S", "A", "O", SP, SP, SP, SP, SP>>,
    <<"C", "O", "D", "E", "F", SP, "1", "2">> }

FldPages ==
  {<<SP, "0", "1", SP>> \o Join(ls, <<NL>>) :
     ls \in UNION {[1..k -> FldLines] : k \in 1..MaxFldLines}}

InitFld == Start(FldPages)

SpecFld == InitFld /\ [][Next]_vars

\* rosters whose first record may hold the text of a second record that
\* lost its number: the first body is a record of three lines or two such
\* records one after the other, each starting with its arrest date and
\* time; up to MaxRecovBlocks further records numbered in 01..MaxRecovNum
\* follow
MaxRecovBlocks == 2
MaxRecovNum == 4

RecovBodies ==
  { <<"1", "1", "/", "2", "2", "/", "3", "3", "3", "3", SP, "4", "4", "4", "4", NL,
      "y", NL, "z", NL>>,
    <<"1", "1", "/", "2", "2", "/", "3", "3", "3", "3", SP, "4", "4", "4", "4", NL,
      "y", NL, "z", NL,
      "1", "1", "/", "2", "2", "/", "3", "3", "3", "3", SP, "4", "4", "4", "4", SP,
      "2", "5", SP, "y", "e", "a", "r", SP, "o", "l", "d", NL,
      "M", "a", "l", "e", SP, NL, "z", NL>> }

RecovPages ==
  {RecBlock(<<n, b>>)
     \o Concat([k \in 1..Len(ns) |-> RecBlock(<<ns[k], <<"x", NL, "y", NL, "z", NL>>>>)]) :
     n \in 1..MaxRecovNum, b \in RecovBodies,
     ns \in SeqsUpTo(1..MaxRecovNum, MaxRecovBlocks)}

InitRecov == Start(RecovPages)

SpecRecov == InitRecov /\ [][Next]_vars

(***************************************************************************)
(* Sessions of the data entry application.                                 *)
(***************************************************************************)
\* the state after DataEntryApp() and setup(): the files of the folder,
\* the keys the user presses and the court dates the user types
AppStart(files, keys, dates) ==
  /\ page = <<>>
  /\ pc = "start"
  /\ lunum_raw = <<>>
  /\ lunum = <<>>
  /\ lu_index = 0
  /\ d = <<>>
  /\ df = <<>>
  /\ raised = ""
  /\ app = DataEntryApp
  /\ run = [pdf_files |-> files, i |-> 0, at |-> "setup", keyboard |-> keys,
            court_dates |-> dates, csv |-> <<>>]

\* one file, entered with the keys for two races, the two gender keys, one
\* digit, a key that is bound to nothing, Backspace, the arrows, Enter and
\* Quit
EntryKeys ==
  {"b", "W", "g", "x", "7", "z", "Key.backspace", "Key.up", "Key.down",
   "Key.enter", "q"}

InitApp == AppStart(<<"a.pdf">>, EntryKeys, {"2024-01-15"})

SpecApp == InitApp /\ [][NextApp]_vars

\* two files and two court dates, walked with the arrows and Enter
NavKeys == {"Key.up", "Key.down", "Key.enter"}

InitNav == AppStart(<<"a.pdf", "b.pdf">>, NavKeys, {"2024-01-15", "2024-01-16"})

SpecNav == InitNav /\ [][NextApp]_vars

(***************************************************************************)
(* Properties.                                                             *)
(***************************************************************************)
\* the anchor matches of the page, in text order
Anchors == LuRegexFinditer(page, 0)

\* the raw identifiers, as validate_normalize_lunums receives them
RawNumbers == [k \in 1..Len(lunum_raw) |-> original_number(lunum_raw[k])]

\* the identifiers of the validated list
FinalNumbers == [k \in 1..Len(lunum) |-> number(lunum[k])]

\* the positions of the validated list that hold a real block
RealPositions == {k \in 1..Len(lunum) : ~is_missing(lunum[k])}

\* the validated list without its placeholders
RealLunums == SelectSeq(lunum, LAMBDA lu : ~is_missing(lu))

Contiguous(ns) == \A k \in 1..Len(ns) : ns[k] = ns[1] + (k - 1)

StrictlyIncreasing(ns) == \A k \in 1..(Len(ns) - 1) : ns[k] < ns[k + 1]

\* C1: for a text whose anchor matches start at p_1 < ... < p_n (n >= 1),
\* create_lunums returns n blocks in that order, block i being
\* text[p_i : p_{i+1}] and the last text[p_n : len(text)]; the blocks are
\* pairwise disjoint and their concatenation is text[p_1:].
C1_SegmentationCompleteness ==
  (pc # "start" /\ Anchors # <<>>) =>
    LET n == Len(Anchors)
        p(k) == IF k <= n THEN Anchors[k].start ELSE Len(page)
        span_start(k) == block_start(lunum_raw[k])
        span_end(k) == block_start(lunum_raw[k]) + Len(lunum_raw[k].block_text)
    IN /\ Len(lunum_raw) = n
       /\ \A k \in 1..(n - 1) : p(k) < p(k + 1)
       /\ \A k \in 1..n :
            /\ span_start(k) = p(k)
            /\ lunum_raw[k].block_text = Slice(page, p(k), p(k + 1))
       /\ \A j, k \in 1..n : j < k => span_end(j) <= span_start(k)
       /\ Concat([k \in 1..n |-> lunum_raw[k].block_text])
            = Slice(page, p(1), Len(page))

\* C1 witness: a text segmented into two blocks or more
C1_Witness == pc = "created" /\ Len(lunum_raw) >= 2

\* C2: a text with no anchor match makes create_lunums, and so scrape_lulist,
\* fail with ValueError; no block and no record is produced.
C2_NoAnchorsFound ==
  (pc # "start" /\ Anchors = <<>>) =>
    /\ pc = "raised"
    /\ raised = "ValueError"
    /\ lunum_raw = <<>> /\ lunum = <<>> /\ d = <<>> /\ df = <<>>

\* C2 witness: the ValueError on a text that does hold digits
C2_Witness ==
  /\ pc = "raised" /\ raised = "ValueError"
  /\ \E k \in 1..Len(page) : IsDigit(page[k])

\* C3: raw identifiers that are an ascending contiguous run come back with
\* the same length, identifiers and order, and no is_fixed, is_duplicate or
\* is_missing flag.
C3_NoOpValidation ==
  (pc = "validated" /\ Contiguous(RawNumbers)) =>
    /\ Len(lunum) = Len(lunum_raw)
    /\ \A k \in 1..Len(lunum) :
         /\ number(lunum[k]) = RawNumbers[k]
         /\ ~is_fixed(lunum[k])
         /\ lunum[k].is_duplicate = "False"
         /\ ~is_missing(lunum[k])

\* C3 witness: a contiguous run of three blocks or more was validated
C3_Witness ==
  pc = "validated" /\ Contiguous(RawNumbers) /\ Len(lunum_raw) >= 3

\* the outcome C4 describes: every real block as it was, unfixed; the final
\* identifiers are every integer from the first to the last raw identifier,
\* the skipped ones once each as a placeholder with an empty block
GapSynthesis ==
  LET first == RawNumbers[1]
      last == RawNumbers[Len(RawNumbers)]
      raw_set == {RawNumbers[k] : k \in 1..Len(RawNumbers)}
  IN /\ RealLunums = [k \in 1..Len(lunum_raw) |->
                        [lunum_raw[k] EXCEPT !.is_duplicate = "False"]]
     /\ FinalNumbers = [k \in 1..(last - first + 1) |-> first + (k - 1)]
     /\ \A k \in 1..Len(lunum) :
          /\ is_missing(lunum[k]) <=> number(lunum[k]) \notin raw_set
          /\ is_missing(lunum[k]) => lunum[k].block_text = <<>>

\* C4 as stated: GapSynthesis for every strictly increasing list of raw
\* identifiers.
C4_AsStated ==
  (pc = "validated" /\ StrictlyIncreasing(RawNumbers)) => GapSynthesis

\* the last raw identifier follows the one before it (or there is only one)
LastFollows(ns) == Len(ns) = 1 \/ ns[Len(ns)] = ns[Len(ns) - 1] + 1

\* C4 amended: GapSynthesis for every strictly increasing list of raw
\* identifiers whose last identifier is one more than the one before it (a
\* gap just before the last block is closed by renumbering the last block).
C4_GapSynthesis ==
  (pc = "validated" /\ StrictlyIncreasing(RawNumbers) /\ LastFollows(RawNumbers))
    => GapSynthesis

\* C4 witness: the list 1,2,3,5,6 was validated and 4 is a placeholder
C4_Witness ==
  /\ pc = "validated"
  /\ RawNumbers = <<1, 2, 3, 5, 6>>
  /\ \E k \in 1..Len(lunum) : is_missing(lunum[k]) /\ number(lunum[k]) = 4

\* the fix rule of the correction pass for 0-based position i, read off the
\* raw identifiers ns alone: <<>> for no fix, else <<target>>
RawFix(ns, i) ==
  LET n == Len(ns)
      start == ns[1]
  IN
  IF n < 2 THEN <<>>
  ELSE IF i = 0
  THEN (IF (ns[1] # start \/ ns[2] # ns[1] + 1) /\ ns[2] = start + 1
        THEN <<start>> ELSE <<>>)
  ELSE IF i = n - 1
  THEN (IF ns[n] # ns[n - 1] + 1 THEN <<ns[n - 1] + 1>> ELSE <<>>)
  ELSE (IF ns[i + 2] = ns[i] + 2 /\ ns[i + 1] # ns[i] + 1
        THEN <<ns[i] + 1>> ELSE <<>>)

\* C5: every fix decision and target of the correction pass comes from the
\* raw identifiers only; so 1,2,3,3,5 ends as 1,2,3,4,4 with positions 3 and
\* 4 both fixed to 4, only the second 4 flagged duplicate and no placeholder.
C5_CorrectionFromRawNumbers ==
  pc = "validated" =>
    /\ \A k \in 1..Len(lunum_raw) :
         LET fix == IF Contiguous(RawNumbers) THEN <<>> ELSE RawFix(RawNumbers, k - 1)
         IN /\ is_fixed(RealLunums[k]) <=> fix # <<>>
            /\ number(RealLunums[k]) = IF fix # <<>> THEN fix[1] ELSE RawNumbers[k]
    /\ RawNumbers = <<1, 2, 3, 3, 5>> =>
         /\ FinalNumbers = <<1, 2, 3, 4, 4>>
         /\ [k \in 1..5 |-> is_fixed(lunum[k])] = <<FALSE, FALSE, FALSE, TRUE, TRUE>>
         /\ [k \in 1..5 |-> lunum[k].is_duplicate]
              = <<"False", "False", "False", "False", "True">>
         /\ \A k \in 1..5 : ~is_missing(lunum[k])

\* C5 witness: the list 1,2,3,3,5 was validated
C5_Witness == pc = "validated" /\ RawNumbers = <<1, 2, 3, 3, 5>>

\* C6: the validated list is ascending by identifier, two neighbours being
\* equal only where the later one is flagged is_duplicate.
C6_AscendingOutput ==
  pc = "validated" =>
    \A k \in 1..(Len(lunum) - 1) :
      \/ number(lunum[k]) < number(lunum[k + 1])
      \/ number(lunum[k]) = number(lunum[k + 1]) /\ is_duplicate(lunum[k + 1])

\* the identifiers between the smallest and the largest of the validated list
FinalRange == SeqMin(FinalNumbers)..SeqMax(FinalNumbers)

\* C7 as stated: exactly one element of the validated list carries each
\* integer between its smallest and its largest identifier.
C7_AsStated ==
  pc = "validated" =>
    \A n \in FinalRange :
      Cardinality({k \in 1..Len(lunum) : number(lunum[k]) = n}) = 1

\* C7 amended: every integer between the smallest and the largest identifier
\* of the validated list is carried by at least one element, and by exactly
\* one element that is not flagged is_duplicate.
C7_OnePerIdentifier ==
  pc = "validated" =>
    \A n \in FinalRange :
      Cardinality({k \in 1..Len(lunum) :
                     number(lunum[k]) = n /\ ~is_duplicate(lunum[k])}) = 1

\* C7 witness: a validated list with a placeholder and a duplicate
C7_Witness ==
  /\ pc = "validated"
  /\ \E k \in 1..Len(lunum) : is_missing(lunum[k])
  /\ \E k \in 1..Len(lunum) : is_duplicate(lunum[k])

\* C9: left to right, the first element with a given identifier is not
\* flagged is_duplicate and every later one is; no element is dropped.
C9_DuplicateDetection ==
  pc = "validated" =>
    /\ \A k \in 1..Len(lunum) :
         /\ lunum[k].is_duplicate \in {"False", "True"}
         /\ is_duplicate(lunum[k])
              <=> \E j \in 1..(k - 1) : number(lunum[j]) = number(lunum[k])
    /\ Len(RealLunums) = Len(lunum_raw)

\* C9 witness: a validated list where two elements that are not neighbours
\* carry the same identifier
C9_Witness ==
  /\ pc = "validated"
  /\ \E j, k \in 1..Len(lunum) :
       j + 1 < k /\ number(lunum[j]) = number(lunum[k]) /\ is_duplicate(lunum[k])

\* the records emitted so far, as rows of the table
EmittedRows == IF pc = "returned" THEN df ELSE DataFrame(d)

\* the columns filled from the fields LockUpBlock extracts
ExtractedColumns == Columns \ {"lockup_number", "scraper_warnings"}

\* C8 as stated: the record of a placeholder has every extracted field null,
\* court_date included; it carries only the identifier and a warning.
C8_AsStated ==
  \A k \in 1..Len(EmittedRows) :
    is_missing(lunum[k]) =>
      /\ \A c \in ExtractedColumns : EmittedRows[k][c] = nan
      /\ EmittedRows[k].lockup_number = number(lunum[k])
      /\ EmittedRows[k].scraper_warnings # nan

\* C8 amended: the record of a placeholder has every extracted field other
\* than court_date null; its court_date is the court_date of the record
\* emitted just before it (null when it is the first record); it carries
\* the identifier and a non-null warning.
C8_PlaceholderRecord ==
  \A k \in 1..Len(EmittedRows) :
    is_missing(lunum[k]) =>
      /\ \A c \in ExtractedColumns \ {"court_date"} : EmittedRows[k][c] = nan
      /\ EmittedRows[k].court_date
           = IF k = 1 THEN nan ELSE EmittedRows[k - 1].court_date
      /\ EmittedRows[k].lockup_number = number(lunum[k])
      /\ EmittedRows[k].scraper_warnings # nan

\* C8 witness: a returned table with a placeholder's record after a record
\* that has a court date
C8_Witness ==
  /\ pc = "returned"
  /\ \E k \in 2..Len(df) : is_missing(lunum[k]) /\ df[k - 1].court_date # nan

\* C10: LockUpBlock on any block text completes and yields the full field
\* set, a block of fewer than three lines included.
C10_FieldExtractorNeverRaises ==
  \A k \in 1..Len(lunum_raw) :
    LET CurrentLUNum == LockUpBlock(original_number(lunum_raw[k]),
                                    lunum_raw[k].block_text)
    IN /\ CurrentLUNum.raised = ""
       /\ ExtractedColumns \subseteq DOMAIN CurrentLUNum

\* C11: only the ValueError of a text without anchors stops scrape_lulist;
\* on a text with one anchor or more it never ends in an exception.
C11_OnlyNoAnchorsHalt ==
  (pc = "raised" \/ raised # "") => (raised = "ValueError" /\ Anchors = <<>>)

\* the block handed to LockUpBlock for position k of the validated list
ScrapedBlock(k) == StripNewlines(lunum[k].block_text, 0)

\* LockUpBlock has been called for position k of the validated list
Scraped(k) ==
  /\ pc \in {"validated", "returned", "raised"}
  /\ k \in 1..Len(lunum)
  /\ k <= lu_index + (IF raised = "AttributeError" THEN 1 ELSE 0)

\* the occurrences of the words Male and Female in a text: <<offset, word>>
GenderTokens(text) ==
  {<<p, w>> \in (0..Len(text)) \X {<<"M", "a", "l", "e">>, <<"F", "e", "m", "a", "l", "e">>} :
     StartsWithAt(text, w, p)}

\* C12: for a block of two lines or more, when line 2 holds no Male/Female
\* word and the whole block holds exactly one, the gender of the record is
\* that word; when line 2 holds such a word, the gender is the first one on
\* line 2.
C12_FallbackGender ==
  \A k \in 1..Len(lunum) :
    (Scraped(k) /\ ~is_missing(lunum[k]) /\ NewlineCount(ScrapedBlock(k)) >= 1) =>
      LET block == ScrapedBlock(k)
          on_line2 == GenderTokens(select_line(block, 2))
          in_block == GenderTokens(block)
          first(toks) == (CHOOSE t \in toks : \A u \in toks : t[1] <= u[1])[2]
      IN /\ (on_line2 = {} /\ Cardinality(in_block) = 1) =>
              (k <= Len(d) /\ d[k].gender = first(in_block))
         /\ on_line2 # {} =>
              (k <= Len(d) /\ d[k].gender = first(on_line2))

RECURSIVE DateTimeStarts(_, _)
\* the offsets of the MM/DD/YYYY HHMM occurrences of a text from offset p on,
\* left to right, each search resuming at the end of the occurrence before
DateTimeStarts(text, p) ==
  IF p >= Len(text) THEN <<>>
  ELSE IF MatchLen(DateTimeRe, text, p) >= 0
  THEN <<p>> \o DateTimeStarts(text, p + MatchLen(DateTimeRe, text, p))
  ELSE DateTimeStarts(text, p + 1)

\* C13: when the block of identifier n holds two MM/DD/YYYY HHMM occurrences
\* and identifier n + 1 has no anchor of its own, the table has the partial
\* record of n + 1: gender and age extracted from the text starting at the
\* second occurrence, and a warning that names the fallback.
C13_RecoveryFallback ==
  pc = "returned" =>
    \A k \in 1..(Len(lunum) - 1) :
      LET block == lunum[k].block_text
          occurrences == DateTimeStarts(block, 0)
          errored_num == number(lunum[k]) + 1
      IN (/\ ~is_missing(lunum[k])
          /\ is_missing(lunum[k + 1])
          /\ number(lunum[k + 1]) = errored_num
          /\ Len(occurrences) >= 2) =>
           LET ErroredLUNum ==
                 get_lo_details(Slice(block, occurrences[2], Len(block)))
           IN /\ df[k + 1].lockup_number = errored_num
              /\ df[k + 1].gender = ErroredLUNum.gender
              /\ df[k + 1].age = ErroredLUNum.age
              /\ df[k + 1].scraper_warnings
                   = <<"KeyError, PDFReader could not find", errored_num,
                       "fell back to arrest date start;">>

\* the last court date of the rows before row k, nan when there is none
LastCourtDate(rows, k) ==
  LET dated == {j \in 1..(k - 1) : rows[j].court_date # nan}
  IN IF dated = {} THEN nan
     ELSE rows[CHOOSE j \in dated : \A i \in dated : i <= j].court_date

\* line 3 of a block holds MM/DD/YYYY
DateOnLine3(block) ==
  LET line == select_line(block, 3)
  IN \E p \in 0..Len(line) : DateAt(line, p)

\* C14 as stated: the record of a real block whose own court date cannot be
\* extracted carries the last court date of the records before it, and is
\* null only when no earlier record has one.
C14_AsStated ==
  \A k \in 1..Len(d) :
    (~is_missing(lunum[k]) /\ ~DateOnLine3(ScrapedBlock(k))) =>
      d[k].court_date = LastCourtDate(d, k)

\* C14 amended: the record of a real block has the court date found on line 3
\* of its own block, and a null court date when line 3 holds none, whatever
\* the records before it carry.
C14_OwnCourtDateOnly ==
  \A k \in 1..Len(d) :
    ~is_missing(lunum[k]) =>
      LET line == select_line(ScrapedBlock(k), 3)
      IN IF DateOnLine3(ScrapedBlock(k))
         THEN /\ Len(d[k].court_date) = 10
              /\ Find(line, d[k].court_date) >= 0
              /\ DateAt(d[k].court_date, 0)
         ELSE d[k].court_date = nan

\* C14 witness: a real block without a court date of its own was given a
\* record after a record that has a court date
C14_Witness ==
  \E k \in 2..Len(d) :
    /\ ~is_missing(lunum[k])
    /\ ~DateOnLine3(ScrapedBlock(k))
    /\ LastCourtDate(d, k) # nan

\* C15: the record of a block whose identifier was corrected (is_fixed) or
\* flagged is_duplicate says so, by a flag column or a non-null warning; the
\* returned table has a record for every element of the validated list.
C15_OutcomeRecorded ==
  /\ \A k \in 1..Len(d) :
       (~is_missing(lunum[k]) /\ (is_fixed(lunum[k]) \/ is_duplicate(lunum[k]))) =>
         \/ d[k].scraper_warnings # nan
         \/ \E c \in DOMAIN d[k] : c \in {"is_fixed", "is_duplicate"}
  /\ pc = "returned" => Len(df) = Len(lunum)

RECURSIVE SpaceRun(_, _)
\* number of consecutive spaces from offset p
SpaceRun(T, p) == IF CharIs(T, p, SP) THEN 1 + SpaceRun(T, p + 1) ELSE 0

RECURSIVE DigitRun(_, _)
\* number of consecutive digits from offset p
DigitRun(T, p) == IF DigitAt(T, p) THEN 1 + DigitRun(T, p + 1) ELSE 0

\* the offsets at which a line of the page starts
LineStarts == {p \in 0..(Len(page) - 1) : p = 0 \/ page[p] = NL}

\* the offset of the first character after the leading spaces of the line
NumberStart(p) == p + SpaceRun(page, p)

\* the line at p is spaces (none included), a number of exactly two or three
\* digits, and a space
NumberedLine(p) ==
  /\ DigitRun(page, NumberStart(p)) \in {2, 3}
  /\ CharIs(page, NumberStart(p) + DigitRun(page, NumberStart(p)), SP)

\* the line before the one at p is empty or all spaces
BlankLineBefore(p) ==
  \E b \in LineStarts : b < p /\ \A i \in (b + 1)..p : IsSpace(page[i])

\* where the numbers of the anchors that create_lunums returned start
AnchorNumberStarts ==
  {lunum_raw[k].match[1].number_start : k \in 1..Len(lunum_raw)}

\* C16 as stated: every line made of optional leading whitespace (none
\* included), a number of 2 or 3 digits and a space is an anchor.
C16_AsStated ==
  pc # "start" =>
    \A p \in LineStarts : NumberedLine(p) => NumberStart(p) \in AnchorNumberStarts

\* C16 amended: the anchors are exactly the numbered lines whose number comes
\* after one whitespace character or more counted from a line start: spaces
\* on the number's own line, or, for a number in column 0, a line before it
\* that is empty or all whitespace.  A number in column 0 of the first line,
\* or after a line that is not blank, is no anchor.
C16_AnchorScanner ==
  pc # "start" =>
    /\ AnchorNumberStarts
         = {NumberStart(p) : p \in {l \in LineStarts :
              NumberedLine(l) /\ (SpaceRun(page, l) >= 1 \/ BlankLineBefore(l))}}
    /\ Len(lunum_raw) = Cardinality(AnchorNumberStarts)
    /\ (NumberedLine(0) /\ SpaceRun(page, 0) = 0) => 0 \notin AnchorNumberStarts

\* C16 witness: a text with a column-0 number that is an anchor (after a
\* blank line) and a column-0 number that is not
C16_Witness ==
  /\ pc = "created"
  /\ \E p \in LineStarts :
       NumberedLine(p) /\ SpaceRun(page, p) = 0 /\ p \in AnchorNumberStarts
  /\ \E p \in LineStarts :
       NumberedLine(p) /\ SpaceRun(page, p) = 0 /\ p \notin AnchorNumberStarts

\* the line-scoped fields of the model: the pattern searched on the field's
\* line, the line, and the pattern as it reads for the whole block (a line
\* start being any line start of the block)
LineScopedFields ==
  { [field |-> "age", line |-> 1, line_re |-> AgeRe, block_re |-> AgeRe],
    [field |-> "gender", line |-> 2, line_re |-> GenderRe, block_re |-> GenderRe],
    [field |-> "prosecutor", line |-> 3, line_re |-> ProsecutorReM,
     block_re |-> ProsecutorReM],
    [field |-> "arrest_date", line |-> 1, line_re |-> DateTimeRe,
     block_re |-> DateTimeRe],
    [field |-> "court_date", line |-> 3, line_re |-> DateRe, block_re |-> DateRe] }

\* C17: for every line-scoped field, when its pattern has no match on its
\* line and has one elsewhere in the block, the record has the whole-block
\* match, not null.
C17_TwoTierEveryField ==
  \A k \in 1..Len(d) :
    ~is_missing(lunum[k]) =>
      \A f \in LineScopedFields :
        LET block == ScrapedBlock(k)
        IN (/\ Search(f.line_re, select_line(block, f.line)) = <<>>
            /\ Search(f.block_re, block) # <<>>) =>
             d[k][f.field] = Search(f.block_re, block)[1]

\* the two digits of a CODEF token at offset p of a text: <<>> when the text
\* has no "CODEF", optional space, two digits there
CodefDigits(text, p) ==
  IF ~StartsWithAt(text, <<"C", "O", "D", "E", "F">>, p) THEN <<>>
  ELSE IF DigitAt(text, p + 5) /\ DigitAt(text, p + 6)
  THEN <<Slice(text, p + 5, p + 7)>>
  ELSE IF CharIs(text, p + 5, SP) /\ DigitAt(text, p + 6) /\ DigitAt(text, p + 7)
  THEN <<Slice(text, p + 6, p + 8)>>
  ELSE <<>>

\* C18: the codef of a record is the two digits NN of the first "CODEF NN"
\* or "CODEFNN" of its block, and null only when the block has no such token.
C18_CodefExtraction ==
  \A k \in 1..Len(d) :
    ~is_missing(lunum[k]) =>
      LET block == ScrapedBlock(k)
          tokens == {p \in 0..Len(block) : CodefDigits(block, p) # <<>>}
      IN IF tokens = {} THEN d[k].codef = nan
         ELSE d[k].codef
                = CodefDigits(block, CHOOSE p \in tokens : \A q \in tokens : p <= q)[1]

\* some block of the validated list was renumbered by the correction pass
SomeBlockFixed == \E k \in RealPositions : is_fixed(lunum[k])

\* C19 as stated: raw identifiers that only skip forward (1,2,3,5,6) give
\* the walk no out-of-order event, and the correction pass does not run.
C19_AsStated ==
  (pc = "validated" /\ StrictlyIncreasing(RawNumbers)) =>
    /\ out_of_order(RawNumbers) = {}
    /\ ~SomeBlockFixed

\* C19 amended: on raw identifiers that only skip forward the walk records
\* one event (i, previous + 1, found) at every position whose value is
\* larger than expected, so the correction pass runs whenever there is a gap;
\* it renumbers the last block when the gap is just before it and changes
\* nothing otherwise (1,2,3,5,6: the event (3, 4, 5), no block changed).
C19_ForwardGapEvent ==
  (pc = "validated" /\ StrictlyIncreasing(RawNumbers)) =>
    LET ns == RawNumbers
        n == Len(ns)
    IN /\ out_of_order(ns)
            = {<<k - 1, ns[k - 1] + 1, ns[k]>> :
                 k \in {j \in 2..n : ns[j] > ns[j - 1] + 1}}
       /\ SomeBlockFixed <=> ~LastFollows(ns)
       /\ ~LastFollows(ns) =>
            /\ is_fixed(RealLunums[n])
            /\ number(RealLunums[n]) = ns[n - 1] + 1
       /\ ns = <<1, 2, 3, 5, 6>> =>
            out_of_order(ns) = {<<3, 4, 5>>} /\ ~SomeBlockFixed

\* C19 witness: a forward gap just before the last block made the correction
\* pass renumber that block
C19_Witness ==
  /\ pc = "validated"
  /\ StrictlyIncreasing(RawNumbers)
  /\ Len(RawNumbers) >= 3
  /\ ~LastFollows(RawNumbers)
  /\ is_fixed(lunum[Len(lunum)])

\* C20: every placeholder stands immediately after the last element of the
\* list whose identifier is less than its own, whatever the order of the
\* corrected identifiers: no element after a placeholder has a smaller
\* identifier, and the element before it has one.
C20_PlaceholderAfterLastSmaller ==
  pc = "validated" =>
    \A k \in 1..Len(lunum) :
      is_missing(lunum[k]) =>
        /\ \A j \in (k + 1)..Len(lunum) : number(lunum[j]) > number(lunum[k])
        /\ k > 1 => number(lunum[k - 1]) < number(lunum[k])

\* the identifiers of the real blocks of the validated list
RealNumbers == {number(lunum[k]) : k \in RealPositions}

\* C21: the placeholders of the validated list carry exactly the integers
\* between the smallest and the largest identifier of the real blocks that no
\* real block carries, each on one placeholder; the smallest and the largest
\* identifier of the list are those of the real blocks.
C21_MissingSynthesisExact ==
  pc = "validated" =>
    LET lo == CHOOSE n \in RealNumbers : \A m \in RealNumbers : n <= m
        hi == CHOOSE n \in RealNumbers : \A m \in RealNumbers : n >= m
        absent == (lo..hi) \ RealNumbers
    IN /\ \A k \in 1..Len(lunum) :
            is_missing(lunum[k]) => number(lunum[k]) \in absent
       /\ \A n \in absent :
            Cardinality({k \in 1..Len(lunum) :
                           is_missing(lunum[k]) /\ number(lunum[k]) = n}) = 1
       /\ SeqMin(FinalNumbers) = lo
       /\ SeqMax(FinalNumbers) = hi

\* C21 witness: a validated list with two placeholders or more whose smallest
\* identifier is not 1
C21_Witness ==
  /\ pc = "validated"
  /\ Cardinality({k \in 1..Len(lunum) : is_missing(lunum[k])}) >= 2
  /\ SeqMin(FinalNumbers) > 1

Misreads(ns, c) == {k \in 1..Len(ns) : ns[k] # c + (k - 1)}

\* C24: raw identifiers (three or more) that differ from an ascending
\* contiguous run in exactly one position, whichever it is, come back as that
\* run, with is_fixed on that position only, no duplicate flag and no
\* placeholder.
C24_SingleMisreadRepair ==
  (pc = "validated" /\ Len(RawNumbers) >= 3) =>
    \A c \in {RawNumbers[1], RawNumbers[2] - 1} :
      Cardinality(Misreads(RawNumbers, c)) = 1 =>
        /\ Len(lunum) = Len(lunum_raw)
        /\ \A k \in 1..Len(lunum) :
             /\ number(lunum[k]) = c + (k - 1)
             /\ is_fixed(lunum[k]) <=> k \in Misreads(RawNumbers, c)
             /\ ~is_duplicate(lunum[k])
             /\ ~is_missing(lunum[k])

\* C25: in the validated list is_fixed is true exactly on the real blocks
\* whose identifier differs from their original number; a placeholder has
\* is_missing true and is_fixed false, so the two are never true together.
C25_FixedFlagExact ==
  pc = "validated" =>
    \A k \in 1..Len(lunum) :
      /\ ~is_missing(lunum[k]) =>
           (is_fixed(lunum[k]) <=> number(lunum[k]) # original_number(lunum[k]))
      /\ is_missing(lunum[k]) => ~is_fixed(lunum[k])

\* C26: the real elements of the validated list are the input blocks, one
\* for one and in the input order, so the list is as long as the input or
\* longer; each keeps its match and original number, and each that is not
\* is_fixed keeps its identifier and its block text.
C26_RealBlocksKept ==
  pc = "validated" =>
    /\ Len(RealLunums) = Len(lunum_raw)
    /\ Len(lunum) >= Len(lunum_raw)
    /\ \A k \in 1..Len(lunum_raw) :
         /\ RealLunums[k].match = lunum_raw[k].match
         /\ original_number(RealLunums[k]) = RawNumbers[k]
         /\ ~is_fixed(RealLunums[k]) =>
              /\ number(RealLunums[k]) = RawNumbers[k]
              /\ RealLunums[k].block_text = lunum_raw[k].block_text

\* C26 witness: a validated list that is longer than the input and holds a
\* renumbered block with its text rewritten next to an untouched one
C26_Witness ==
  /\ pc = "validated"
  /\ Len(lunum) > Len(lunum_raw)
  /\ \E k \in 1..Len(lunum_raw) :
       is_fixed(RealLunums[k]) /\ RealLunums[k].block_text # lunum_raw[k].block_text
  /\ \E k \in 1..Len(lunum_raw) : ~is_fixed(RealLunums[k])

\* the entries of data that a press of key writes: appended or changed
Written(self, after) ==
  {after.data[i] :
     i \in {j \in 1..Len(after.data) :
              j > Len(self.data) \/ after.data[j] # self.data[j]}}

\* C27: while the listener runs, for every key: data changes only on
\* Enter; an Enter on an empty age with pending_save false only sets
\* pending_save (nothing saved, no move, the listener goes on); an entry
\* written with an empty age is written by an Enter pressed with
\* pending_save true and is the entry of the current lock-up number;
\* pending_save becomes true only through that first Enter and stays true
\* only while the lock-up number stays; after a digit key pending_save is
\* false.
C27_NoAgeConfirmation ==
  run.at = "listening" =>
    \A key \in run.keyboard :
      LET r == on_press(app, key)
          after == r.self
      IN /\ key # "Key.enter" => after.data = app.data
         /\ (key = "Key.enter" /\ app.current_entry.age = <<>> /\ ~app.pending_save) =>
              /\ after = [app EXCEPT !.pending_save = TRUE]
              /\ ~r.stop
         /\ \A e \in Written(app, after) :
              e.age = <<>> =>
                /\ key = "Key.enter"
                /\ app.pending_save
                /\ e.lockup_number = app.current_lockup
         /\ (after.pending_save /\ ~app.pending_save) =>
              key = "Key.enter" /\ app.current_entry.age = <<>>
         /\ (after.pending_save /\ app.pending_save) =>
              after.current_lockup = app.current_lockup
         /\ (has_char(key) /\ IsDigit(lower(key))) => ~after.pending_save

\* C27 witness: an entry with an empty age has been saved by the two
\* presses of Enter and the application has moved on to the next number,
\* where a first Enter on an empty age waits for the second
C27_Witness ==
  /\ run.at = "listening"
  /\ app.pending_save
  /\ app.current_lockup > app.start_lockup
  /\ \E i \in 1..Len(app.data) :
       app.data[i].age = <<>> /\ app.data[i].lockup_number < app.current_lockup

\* C28: once a file is set up, start_lockup <= current_lockup <=
\* end_lockup, current_lockup is at most one more than the highest number
\* saved for the file and court date, the saved numbers are the range from
\* start_lockup to that highest number, and no number is saved twice.
C28_NavigationInvariant ==
  run.i >= 1 =>
    /\ app.start_lockup <= app.current_lockup
    /\ app.current_lockup <= app.end_lockup
    /\ app.current_lockup <= max_entered(app) + 1
    /\ EnteredNumbers(app) = app.start_lockup..max_entered(app)
    /\ \A i, j \in 1..Len(app.data) :
         (/\ app.data[i].file_name = app.data[j].file_name
          /\ app.data[i].court_date = app.data[j].court_date
          /\ app.data[i].lockup_number = app.data[j].lockup_number) => i = j

\* C28 witness: in the second file, after Enter saved the first number and
\* Up went back to it, with a higher number saved for the first file under
\* the same court date
C28_Witness ==
  /\ run.i = 2
  /\ run.at = "listening"
  /\ app.start_lockup < app.end_lockup
  /\ app.current_lockup = app.start_lockup
  /\ EnteredNumbers(app) = {app.start_lockup}
  /\ \E i \in 1..Len(app.data) :
       /\ app.data[i].file_name # app.current_pdf_name
       /\ app.data[i].court_date = app.court_date
       /\ app.data[i].lockup_number > app.current_lockup

====
